---- MODULE Spec2Model ----
(***************************************************************************)
(* Model of zentosam.py: transfer of helpdesk tickets from Zendesk to      *)
(* Samanage.                                                               *)
(*                                                                         *)
(*   SpecHttp     Zendesk.http_call, the rate-limit retry loop             *)
(*   SpecBatch    Zentosam.batch_transfer over a paginated ticket list     *)
(*   SpecTransfer Zentosam.transfer_ticket, call by call, driven by        *)
(*                batch_transfer over a short ticket list                  *)
(***************************************************************************)
EXTENDS Integers, Sequences, FiniteSets, TLC

VARIABLES
    \* ---- Zendesk.http_call (one activation at a time)
    hpc,            \* "idle" | "loop" | "retry" | "returned" | "raised"
    attempts,       \* local: attempts
    responses,      \* status codes received by this call, in order
    events,         \* "get" / "sleep" performed by this call, in order
    slept,          \* seconds slept by this call
    calls,          \* number of http_call activations so far
    \* ---- Zentosam configuration
    samanage,       \* self.samanage (destination writes enabled)
    dump,           \* self.dump (local archive enabled)
    \* ---- Zentosam.batch_transfer
    bpc,            \* "start" | "page" | "tickets" | "done"
    count,          \* number of tickets the source holds
    ticket_range,   \* local: ticket_range
    i,              \* local: page number of the outer loop
    j,              \* position inside the current page (1-based)
    pages,          \* page numbers fetched with get_list_of_tickets, in order
    transferred,    \* ticket ids transfer_ticket was called with, in order
    \* ---- Zentosam.transfer_ticket (locals and position)
    tpc,            \* position inside transfer_ticket
    exc,            \* exception that left transfer_ticket, or "none"
    ticket,         \* the ticket fetched from Zendesk
    status,         \* local: status
    update_status,  \* local: update_status
    assignee_email, \* local: assignee_email
    requester,      \* local: requester
    incident_id,    \* local: incident_id
    k,              \* index of the comment the for loop is at
    comment_list,   \* local: comment_list
    lookups,        \* get_assignee_email calls made for this ticket
    \* ---- Samanage (destination) and the archive file
    writes,         \* destination calls made for this ticket, in order
    incidents,      \* number of incidents the destination has created
    incState,       \* state of the incident created for this ticket
    destFailed,     \* a destination write has answered with an HTTP error
    archive         \* records written to ticket_dump.json, in order

httpVars  == <<hpc, attempts, responses, events, slept, calls>>
confVars  == <<samanage, dump>>
batchRest == <<count, ticket_range, i, j, pages, transferred>>
batchVars == <<bpc, batchRest>>
localVars == <<ticket, status, update_status, assignee_email, requester,
               incident_id, k, comment_list, lookups>>
destVars  == <<writes, incidents, incState, destFailed, archive>>
transVars == <<tpc, exc, localVars, destVars>>
vars      == <<httpVars, confVars, batchVars, transVars>>

\* ---- bounds of the model
MaxCalls    == 2      \* http_call activations explored
MaxCount    == 250    \* tickets held by the source in SpecBatch
MaxTickets  == 2      \* tickets held by the source in SpecTransfer
MaxComments == 2      \* comments on one ticket

\* ---- values
UNBOUND == "UNBOUND"              \* a local name that was never assigned
None    == "None"
NoTicket == [id |-> 0, status |-> None, assignee_id |-> None,
             from |-> None, comments |-> <<>>]

Last(s) == s[Len(s)]

(***************************************************************************)
(* Zendesk.http_call                                                       *)
(***************************************************************************)
Statuses == {200, 404, 429, 500}

TooManyRequests == 429
RetryLimit      == 5
Cooldown        == 30

\* while response.status_code == 429
RetryOnAnyServerErrorMutant(code) == code >= 429
RateLimited(code) == code = TooManyRequests

\* if attempts > 5: break
GiveUpOneEarlierMutant(n) == n >= RetryLimit
GiveUp(n) == n > RetryLimit

\* response.raise_for_status(): 4xx and 5xx raise HTTPError
IsHttpError(code) == code >= 400

HttpInit ==
    /\ hpc = "idle"
    /\ attempts = 0
    /\ responses = <<>>
    /\ events = <<>>
    /\ slept = 0
    /\ calls = 0

\* response = self.session.get(request); attempts = 0
H_Call ==
    /\ hpc \in {"idle", "returned", "raised"}
    /\ calls < MaxCalls
    /\ \E code \in Statuses : responses' = <<code>>
    /\ events' = <<"get">>
    /\ attempts' = 0
    /\ slept' = 0
    /\ calls' = calls + 1
    /\ hpc' = "loop"
    /\ UNCHANGED <<confVars, batchVars, transVars>>

\* loop body up to and including time.sleep(30)
H_Sleep ==
    /\ hpc = "loop"
    /\ RateLimited(Last(responses))
    /\ ~GiveUp(attempts)
    /\ attempts' = attempts + 1
    /\ slept' = slept + Cooldown
    /\ events' = Append(events, "sleep")
    /\ hpc' = "retry"
    /\ UNCHANGED <<responses, calls, confVars, batchVars, transVars>>

\* response = self.session.get(request) inside the loop
H_Retry ==
    /\ hpc = "retry"
    /\ \E code \in Statuses : responses' = Append(responses, code)
    /\ events' = Append(events, "get")
    /\ hpc' = "loop"
    /\ UNCHANGED <<attempts, slept, calls, confVars, batchVars, transVars>>

\* loop exit (condition false, or break), response.raise_for_status(), return
H_Finish ==
    /\ hpc = "loop"
    /\ ~RateLimited(Last(responses)) \/ GiveUp(attempts)
    /\ hpc' = IF IsHttpError(Last(responses)) THEN "raised" ELSE "returned"
    /\ UNCHANGED <<attempts, responses, events, slept, calls, confVars,
                   batchVars, transVars>>


(***************************************************************************)
(* The source (Zendesk) as the program sees it                             *)
(***************************************************************************)
PerPage == 100

ZendeskStatuses == {"open", "pending", "closed", "solved", "new"}
AssigneeIds     == {None, "agent"}
FromAddresses   == {None, "customer@example.com"}
\* the comment threads tried: n comments, written by a and b in turn
Thread(n) == [x \in 1..n |->
                 [author_id |-> IF x % 2 = 1 THEN "a" ELSE "b", body |-> "hi"]]
CommentThreads == {Thread(n) : n \in 0..MaxComments}

\* get_assignee_email: ["user"]["email"] of the user with this id
EmailOf(id) == id \o "@example.com"
\* get_comment_author: ["user"]["name"] of the user with this id
NameOf(id) == IF id = "a" THEN "A" ELSE "B"

\* get_list_of_tickets(page): up to 100 tickets; the ids found on a page
PageLen(page) ==
    IF count - PerPage * (page - 1) <= 0 THEN 0
    ELSE IF count - PerPage * (page - 1) >= PerPage THEN PerPage
    ELSE count - PerPage * (page - 1)
TicketIdAt(page, pos) == PerPage * (page - 1) + pos

\* math.ceil(n / 100)
FloorMutant(n) == n \div 100
Ceil100(n) == IF n % 100 = 0 THEN n \div 100 ELSE (n \div 100) + 1

\* Zendesk.ticket_range: math.ceil(response.json()["count"] / 100) + 1
TicketRangeNoPlusOneMutant(n) == Ceil100(n)
TicketRange(n) == Ceil100(n) + 1

(***************************************************************************)
(* Zentosam.transfer_ticket: local computations                            *)
(***************************************************************************)
DefaultRequester == "default@example.com"

\* try: requester = ticket["ticket"]["via"]["source"]["from"]["address"]
\* except KeyError: requester = self.default_requester
ResolveRequester(t) == IF t.from = None THEN DefaultRequester ELSE t.from

\* if status in ("open", "pending"): status = "New"; update_status = "Assigned"
OpenIfLowercaseMutant(m) ==
    IF m.status \in {"open", "pending"}
    THEN [status |-> "closed", update_status |-> "Assigned"]
    ELSE m
OpenIf(m) ==
    IF m.status \in {"open", "pending"}
    THEN [status |-> "New", update_status |-> "Assigned"]
    ELSE m

\* if status in ("closed", "solved"): status = "Closed"; update_status = "Closed"
ClosedIf(m) ==
    IF m.status \in {"closed", "solved"}
    THEN [status |-> "Closed", update_status |-> "Closed"]
    ELSE m

\* the two ifs in sequence, starting with update_status not yet assigned
MapStatus(st) == ClosedIf(OpenIf([status |-> st, update_status |-> UNBOUND]))

\* "From:{0}\n{1}".format(author, comment["body"])
CommentBody(author, body) == "From:" \o author \o "\n" \o body

\* Samanage: adding a comment to an incident reopens it
AfterComment(state) == IF state = "Closed" THEN "Reopened" ELSE state

Write(op, arg, id, resp) == [op |-> op, arg |-> arg, id |-> id, resp |-> resp]
Responses == {"ok", "error"}

\* position after the comment at index n has been handled
AfterLoopPc(t, n) ==
    IF n <= Len(t.comments) THEN "author"
    ELSE IF samanage THEN "update"
    ELSE IF dump THEN "dump"
    ELSE "done"

FreshLocals ==
    /\ ticket' = NoTicket
    /\ status' = UNBOUND
    /\ update_status' = UNBOUND
    /\ assignee_email' = UNBOUND
    /\ requester' = UNBOUND
    /\ incident_id' = UNBOUND
    /\ k' = 0
    /\ comment_list' = <<>>
    /\ lookups' = 0

\* an exception leaves transfer_ticket and, uncaught, batch_transfer
Raise(kind) ==
    /\ exc' = kind
    /\ tpc' = "raised"
    /\ bpc' = "raised"

TransferInit ==
    /\ tpc = "idle"
    /\ exc = "none"
    /\ ticket = NoTicket
    /\ status = UNBOUND
    /\ update_status = UNBOUND
    /\ assignee_email = UNBOUND
    /\ requester = UNBOUND
    /\ incident_id = UNBOUND
    /\ k = 0
    /\ comment_list = <<>>
    /\ lookups = 0
    /\ writes = <<>>
    /\ incidents = 0
    /\ incState = None
    /\ destFailed = FALSE
    /\ archive = <<>>

BatchInit ==
    /\ bpc = "start"
    /\ ticket_range = 0
    /\ i = 0
    /\ j = 0
    /\ pages = <<>>
    /\ transferred = <<>>

(***************************************************************************)
(* Zentosam.batch_transfer                                                 *)
(***************************************************************************)
\* ticket_range = self.zendesk.ticket_range()
B_TicketRange ==
    /\ bpc = "start"
    /\ \/ /\ ticket_range' = TicketRange(count)
          /\ i' = 1
          /\ bpc' = "page"
          /\ UNCHANGED <<exc, tpc>>
       \/ /\ Raise("HTTPError")
          /\ UNCHANGED <<ticket_range, i>>
    /\ UNCHANGED <<count, j, pages, transferred, localVars, destVars,
                   httpVars, confVars>>

\* for i in range(1, ticket_range): tickets = self.zendesk.get_list_of_tickets(i)
B_GetList ==
    /\ bpc = "page"
    /\ i < ticket_range
    /\ \/ /\ pages' = Append(pages, i)
          /\ j' = 1
          /\ bpc' = "tickets"
          /\ UNCHANGED <<exc, tpc>>
       \/ /\ Raise("HTTPError")
          /\ UNCHANGED <<pages, j>>
    /\ UNCHANGED <<count, ticket_range, i, transferred, localVars, destVars,
                   httpVars, confVars>>

\* range(1, ticket_range) is exhausted
B_Done ==
    /\ bpc = "page"
    /\ i >= ticket_range
    /\ bpc' = "done"
    /\ UNCHANGED <<count, ticket_range, i, j, pages, transferred, transVars,
                   httpVars, confVars>>

\* for ticket in tickets["tickets"]: self.transfer_ticket(ticket["id"])
B_CallTransfer ==
    /\ bpc = "tickets"
    /\ tpc = "idle"
    /\ j <= PageLen(i)
    /\ transferred' = Append(transferred, TicketIdAt(i, j))
    /\ tpc' = "start"
    /\ UNCHANGED <<bpc, count, ticket_range, i, j, pages, exc, localVars,
                   destVars, httpVars, confVars>>

\* the inner for loop is exhausted
B_NextPage ==
    /\ bpc = "tickets"
    /\ tpc = "idle"
    /\ j > PageLen(i)
    /\ i' = i + 1
    /\ bpc' = "page"
    /\ UNCHANGED <<count, ticket_range, j, pages, transferred, transVars,
                   httpVars, confVars>>

\* transfer_ticket returns to the inner for loop; its frame is gone
T_Return ==
    /\ tpc = "done"
    /\ tpc' = "idle"
    /\ j' = j + 1
    /\ FreshLocals
    /\ writes' = <<>>
    /\ incState' = None
    /\ UNCHANGED <<bpc, count, ticket_range, i, pages, transferred, exc,
                   incidents, destFailed, archive, httpVars, confVars>>

\* transfer_ticket with neither samanage nor dump set: it reads the ticket,
\* the assignee, the comments and their authors and has no other effect
T_ReadOnly ==
    /\ tpc = "start"
    /\ ~samanage /\ ~dump
    /\ \/ /\ tpc' = "done"
          /\ UNCHANGED <<exc, bpc>>
       \/ Raise("HTTPError")
    /\ UNCHANGED <<count, ticket_range, i, j, pages, transferred, localVars,
                   destVars, httpVars, confVars>>


(***************************************************************************)
(* Zentosam.transfer_ticket, one action per remote call                    *)
(***************************************************************************)
\* ticket = self.zendesk.get_ticket(ticket_id); subject, status, description
T_GetTicket ==
    /\ tpc = "start"
    /\ \/ /\ \E st \in ZendeskStatuses, as \in AssigneeIds,
                fr \in FromAddresses, cs \in CommentThreads :
               /\ ticket' = [id |-> Last(transferred), status |-> st,
                             assignee_id |-> as, from |-> fr, comments |-> cs]
               /\ status' = st
               /\ tpc' = IF as # None THEN "assignee" ELSE "map"
          /\ UNCHANGED <<exc, bpc>>
       \/ /\ Raise("HTTPError")
          /\ UNCHANGED <<ticket, status>>
    /\ UNCHANGED <<update_status, assignee_email, requester, incident_id, k,
                   comment_list, lookups, destVars, batchRest, httpVars,
                   confVars>>

\* if ticket["ticket"]["assignee_id"] is not None:
\*     assignee_email = self.zendesk.get_assignee_email(...)
T_GetAssignee ==
    /\ tpc = "assignee"
    /\ lookups' = lookups + 1
    /\ \/ /\ assignee_email' = EmailOf(ticket.assignee_id)
          /\ tpc' = "map"
          /\ UNCHANGED <<exc, bpc>>
       \/ /\ Raise("HTTPError")
          /\ UNCHANGED assignee_email
    /\ UNCHANGED <<ticket, status, update_status, requester, incident_id, k,
                   comment_list, destVars, batchRest, httpVars, confVars>>

\* requester resolution and the two status ifs
T_Map ==
    /\ tpc = "map"
    /\ requester' = ResolveRequester(ticket)
    /\ status' = MapStatus(status).status
    /\ update_status' = MapStatus(status).update_status
    /\ tpc' = IF samanage THEN "incident" ELSE "comments"
    /\ UNCHANGED <<exc, bpc, ticket, assignee_email, incident_id, k,
                   comment_list, lookups, destVars, batchRest, httpVars,
                   confVars>>

\* if self.samanage: incident = self.samanage.incident(...)
\*                   incident_id = json.loads(incident)["id"]
\* Samanage.incident returns response.text whatever the status code; the text
\* of an error response holds no "id"
T_Incident ==
    /\ tpc = "incident"
    /\ IF assignee_email = UNBOUND
       THEN /\ Raise("UnboundLocalError")
            /\ UNCHANGED <<incident_id, destVars>>
       ELSE \/ /\ writes' = Append(writes, Write("incident", status, 0, "ok"))
               /\ incidents' = incidents + 1
               /\ incident_id' = incidents + 1
               /\ incState' = status
               /\ tpc' = "comments"
               /\ UNCHANGED <<exc, bpc, destFailed, archive>>
            \/ /\ writes' = Append(writes, Write("incident", status, 0, "error"))
               /\ destFailed' = TRUE
               /\ Raise("KeyError")
               /\ UNCHANGED <<incident_id, incidents, incState, archive>>
    /\ UNCHANGED <<ticket, status, update_status, assignee_email, requester, k,
                   comment_list, lookups, batchRest, httpVars, confVars>>

\* comments = self.zendesk.get_comments(ticket_id); comment_list = []
T_GetComments ==
    /\ tpc = "comments"
    /\ \/ /\ comment_list' = <<>>
          /\ k' = 1
          /\ tpc' = AfterLoopPc(ticket, 1)
          /\ UNCHANGED <<exc, bpc>>
       \/ /\ Raise("HTTPError")
          /\ UNCHANGED <<comment_list, k>>
    /\ UNCHANGED <<ticket, status, update_status, assignee_email, requester,
                   incident_id, lookups, destVars, batchRest, httpVars,
                   confVars>>

\* author = self.zendesk.get_comment_author(comment["author_id"])
\* if self.dump: comment_list.append({"author": author, "body": comment["body"]})
T_Author ==
    /\ tpc = "author"
    /\ \/ /\ comment_list' =
                IF dump
                THEN Append(comment_list,
                            [author |-> NameOf(ticket.comments[k].author_id),
                             body |-> ticket.comments[k].body])
                ELSE comment_list
          /\ IF samanage
             THEN tpc' = "post" /\ k' = k
             ELSE tpc' = AfterLoopPc(ticket, k + 1) /\ k' = k + 1
          /\ UNCHANGED <<exc, bpc>>
       \/ /\ Raise("HTTPError")
          /\ UNCHANGED <<comment_list, k>>
    /\ UNCHANGED <<ticket, status, update_status, assignee_email, requester,
                   incident_id, lookups, destVars, batchRest, httpVars,
                   confVars>>

\* if self.samanage: self.samanage.comment("From:{0}\n{1}".format(...), incident_id)
\* Samanage.comment returns response.status_code, which is not looked at
T_PostComment ==
    /\ tpc = "post"
    /\ \E resp \in Responses :
          /\ writes' = Append(writes,
                 Write("comment",
                       CommentBody(NameOf(ticket.comments[k].author_id),
                                   ticket.comments[k].body),
                       incident_id, resp))
          /\ incState' = IF resp = "ok" THEN AfterComment(incState) ELSE incState
          /\ destFailed' = (destFailed \/ resp = "error")
    /\ k' = k + 1
    /\ tpc' = AfterLoopPc(ticket, k + 1)
    /\ UNCHANGED <<exc, bpc, ticket, status, update_status, assignee_email,
                   requester, incident_id, comment_list, lookups, incidents,
                   archive, batchRest, httpVars, confVars>>

\* if self.samanage: self.samanage.update_status(update_status, incident_id)
\* Samanage.update_status returns response.status_code, which is not looked at
T_UpdateStatus ==
    /\ tpc = "update"
    /\ IF update_status = UNBOUND
       THEN /\ Raise("UnboundLocalError")
            /\ UNCHANGED <<writes, incState, destFailed>>
       ELSE /\ \E resp \in Responses :
                  /\ writes' = Append(writes,
                         Write("update_status", update_status, incident_id, resp))
                  /\ incState' = IF resp = "ok" THEN update_status ELSE incState
                  /\ destFailed' = (destFailed \/ resp = "error")
            /\ tpc' = IF dump THEN "dump" ELSE "done"
            /\ UNCHANGED <<exc, bpc>>
    /\ UNCHANGED <<localVars, incidents, archive, batchRest, httpVars, confVars>>

\* if self.dump: open("ticket_dump.json", "a"), build card_details, write it
T_Dump ==
    /\ tpc = "dump"
    /\ IF assignee_email = UNBOUND
       THEN /\ Raise("UnboundLocalError")
            /\ UNCHANGED archive
       ELSE /\ archive' = Append(archive,
                 [id |-> ticket.id, requester |-> requester, status |-> status,
                  assignee |-> assignee_email, comments |-> comment_list])
            /\ tpc' = "done"
            /\ UNCHANGED <<exc, bpc>>
    /\ UNCHANGED <<localVars, writes, incidents, incState, destFailed,
                   batchRest, httpVars, confVars>>

(***************************************************************************)
(* Specifications                                                          *)
(***************************************************************************)
\* http_call alone
InitHttp ==
    /\ HttpInit
    /\ samanage = FALSE /\ dump = FALSE
    /\ count = 0
    /\ BatchInit
    /\ TransferInit

NextHttp ==
    \/ H_Call
    \/ H_Sleep
    \/ H_Retry
    \/ H_Finish

SpecHttp == InitHttp /\ [][NextHttp]_vars

\* batch_transfer over a source of 0..MaxCount tickets, results switched off
InitBatch ==
    /\ HttpInit
    /\ samanage = FALSE /\ dump = FALSE
    /\ count \in 0..MaxCount
    /\ BatchInit
    /\ TransferInit

NextBatch ==
    \/ B_TicketRange
    \/ B_GetList
    \/ B_Done
    \/ B_CallTransfer
    \/ B_NextPage
    \/ T_ReadOnly
    \/ T_Return

SpecBatch == InitBatch /\ [][NextBatch]_vars

\* transfer_ticket in detail, for every configuration
InitTransfer ==
    /\ HttpInit
    /\ samanage \in BOOLEAN /\ dump \in BOOLEAN
    /\ count \in 0..MaxTickets
    /\ BatchInit
    /\ TransferInit

NextTransfer ==
    \/ B_TicketRange
    \/ B_GetList
    \/ B_Done
    \/ B_CallTransfer
    \/ B_NextPage
    \/ T_GetTicket
    \/ T_GetAssignee
    \/ T_Map
    \/ T_Incident
    \/ T_GetComments
    \/ T_Author
    \/ T_PostComment
    \/ T_UpdateStatus
    \/ T_Dump
    \/ T_Return

SpecTransfer == InitTransfer /\ [][NextTransfer]_vars


(***************************************************************************)
(* Properties of Zendesk.http_call (SpecHttp)                              *)
(***************************************************************************)
NumSleeps == Cardinality({x \in 1..Len(events) : events[x] = "sleep"})
NumGets   == Cardinality({x \in 1..Len(events) : events[x] = "get"})
Finished  == hpc \in {"returned", "raised"}
FirstSixRateLimited ==
    /\ Len(responses) >= 6
    /\ \A x \in 1..6 : responses[x] = 429

\* C1, as the specification states it: no call sleeps more than 5 times, and
\* a call whose first 6 responses are 429 sleeps exactly 5 times (150 s) and
\* then sends one last request that no sleep precedes.
C1_FiveSleepsThenUnguardedRequest ==
    /\ NumSleeps <= 5
    /\ (Finished /\ FirstSixRateLimited) =>
          /\ NumSleeps = 5
          /\ slept = 150
          /\ events[Len(events)] = "get"
          /\ events[Len(events) - 1] = "get"

\* C1, amended: no call sleeps more than 6 times, each sleep is 30 s, and
\* every request after the first directly follows a sleep; a call whose first
\* 6 responses are 429 sleeps exactly 6 times (180 s), sends 7 requests, and
\* returns or raises what the 7th response yields, with no request after it.
C1_SixSleepsEveryRetryGuarded ==
    /\ NumSleeps <= 6
    /\ NumSleeps = attempts
    /\ slept = 30 * NumSleeps
    /\ NumGets = Len(responses)
    /\ \A x \in 2..Len(events) :
          events[x] = "get" => events[x - 1] = "sleep"
    /\ (Finished /\ FirstSixRateLimited) =>
          /\ NumSleeps = 6
          /\ slept = 180
          /\ Len(responses) = 7
          /\ hpc = "raised" <=> responses[7] >= 400

C1_Witness ==
    /\ hpc = "raised"
    /\ FirstSixRateLimited
    /\ Len(responses) = 7
    /\ responses[7] = 429
    /\ NumSleeps = 6

\* C2: once a response carries an error status other than 429, the call
\* raises the HTTP error as its next step; it neither sleeps nor sends
\* another request after that response.
C2_ErrorRaisedWithoutRetry ==
    [][(/\ hpc = "loop"
        /\ Last(responses) >= 400
        /\ Last(responses) # 429)
       => (/\ hpc' = "raised"
           /\ events' = events
           /\ responses' = responses
           /\ slept' = slept)]_vars

C2_Witness ==
    /\ hpc = "raised"
    /\ Len(responses) = 3
    /\ responses[1] = 429
    /\ responses[2] = 429
    /\ responses[3] = 500
    /\ events = <<"get", "sleep", "get", "sleep", "get">>

(***************************************************************************)
(* Properties of batch_transfer and ticket_range (SpecBatch)               *)
(***************************************************************************)
RangeKnown == bpc \in {"page", "tickets", "done"} \/ (bpc = "raised" /\ i >= 1)

\* C7, as the specification states it: ticket_range is ceil(count/100)+1,
\* and for count 0, 1, 100, 101, 250 it is 1, 1, 2, 3, 4.
C7_TotalPagesAsStated ==
    RangeKnown =>
        /\ 100 * (ticket_range - 1) >= count
        /\ 100 * (ticket_range - 2) < count
        /\ count = 0 => ticket_range = 1
        /\ count = 1 => ticket_range = 1
        /\ count = 100 => ticket_range = 2
        /\ count = 101 => ticket_range = 3
        /\ count = 250 => ticket_range = 4

\* C7, amended: ticket_range is ceil(count/100)+1, that is one more than the
\* least n with 100*n >= count; for count 0, 1, 100, 101, 250 it is
\* 1, 2, 2, 3, 4.
C7_TotalPages ==
    RangeKnown =>
        /\ ticket_range >= 1
        /\ 100 * (ticket_range - 1) >= count
        /\ 100 * (ticket_range - 2) < count
        /\ count = 0 => ticket_range = 1
        /\ count = 1 => ticket_range = 2
        /\ count = 100 => ticket_range = 2
        /\ count = 101 => ticket_range = 3
        /\ count = 250 => ticket_range = 4

C7_Witness ==
    /\ bpc = "page"
    /\ count = 1
    /\ ticket_range = 2

\* C8: batch_transfer fetches the pages 1, 2, ... in increasing order, each
\* once, and calls transfer_ticket on the listed ids in listing order, each
\* once; when it ends with every call having succeeded it has fetched exactly
\* the pages 1..ceil(count/100) and transferred every one of the count
\* tickets (none when count = 0).
C8_EveryTicketOnceInOrder ==
    /\ \A x \in 1..Len(pages) : pages[x] = x
    /\ \A x \in 1..Len(transferred) : transferred[x] = x
    /\ Len(transferred) <= count
    /\ 100 * (Len(pages) - 1) < count \/ Len(pages) = 0
    /\ bpc = "done" =>
          /\ Len(transferred) = count
          /\ 100 * Len(pages) >= count
          /\ count = 0 => pages = <<>> /\ transferred = <<>>

C8_Witness ==
    /\ bpc = "done"
    /\ count = 101
    /\ pages = <<1, 2>>
    /\ Len(transferred) = 101
    /\ transferred[101] = 101

(***************************************************************************)
(* Properties of transfer_ticket (SpecTransfer)                            *)
(***************************************************************************)
Fetched      == ticket.id # 0
Ended        == tpc \in {"done", "raised"}
OpenLike     == ticket.status \in {"open", "pending"}
ClosedLike   == ticket.status \in {"closed", "solved"}
AllAnswersOk == \A x \in 1..Len(writes) : writes[x].resp = "ok"
WritesOf(op) == {x \in 1..Len(writes) : writes[x].op = op}

\* the destination calls of one complete transfer: a create, a comment post
\* per source comment in source order, a status update
ExpectedOps ==
    <<"incident">> \o [x \in 1..Len(ticket.comments) |-> "comment"]
                   \o <<"update_status">>
WritesInOrder ==
    /\ Len(writes) = Len(ticket.comments) + 2
    /\ \A x \in 1..Len(writes) : writes[x].op = ExpectedOps[x]
    /\ \A x \in 1..Len(ticket.comments) :
          /\ writes[x + 1].id = incident_id
          /\ writes[x + 1].arg =
                "From:" \o (IF ticket.comments[x].author_id = "a" THEN "A" ELSE "B")
                        \o "\n" \o ticket.comments[x].body

\* C3: with destination writes enabled, the create call of an open or pending
\* ticket carries New and its status update Assigned; the create call of a
\* closed or solved ticket carries Closed and its status update Closed; the
\* two are never mixed.
C3_StatusMapping ==
    (samanage /\ Fetched) =>
        /\ \A x \in WritesOf("incident") :
              /\ OpenLike => writes[x].arg = "New"
              /\ ClosedLike => writes[x].arg = "Closed"
        /\ \A x \in WritesOf("update_status") :
              /\ OpenLike => writes[x].arg = "Assigned" /\ writes[1].arg = "New"
              /\ ClosedLike => writes[x].arg = "Closed" /\ writes[1].arg = "Closed"

C3_Witness ==
    /\ samanage
    /\ tpc = "done"
    /\ ticket.status = "open"
    /\ Len(ticket.comments) = 2
    /\ writes[1] = Write("incident", "New", 0, "ok")
    /\ writes[4] = Write("update_status", "Assigned", incident_id, "ok")

\* C4: with destination writes enabled, the transfer of a ticket without
\* assignee (status open, pending, closed or solved, every remote call
\* answering well) completes without error, with no assignee lookup, one
\* create, one comment post per source comment and a final status update.
C4_NoAssigneeIsTransferred ==
    (/\ samanage
     /\ Fetched
     /\ ticket.assignee_id = None
     /\ OpenLike \/ ClosedLike
     /\ Ended
     /\ exc # "HTTPError"
     /\ AllAnswersOk)
    => /\ tpc = "done"
       /\ lookups = 0
       /\ WritesInOrder

\* C5: a destination write that is answered with an HTTP error ends
\* transfer_ticket at that call: no destination write follows it for this
\* ticket, and batch_transfer transfers no later ticket.
C5_DestinationErrorsSurface ==
    /\ \A x \in 1..Len(writes) :
          writes[x].resp = "error" => (x = Len(writes) /\ tpc = "raised")
    /\ destFailed => bpc = "raised"

\* C6: in dry-run mode (dump set, samanage not) no destination call is made,
\* and every transfer_ticket call whose reads succeed appends one record, so
\* the archive holds one record per call, in call order.
C6_DryRunArchivesEveryTicket ==
    (dump /\ ~samanage) =>
        /\ writes = <<>>
        /\ incidents = 0
        /\ \A x \in 1..Len(archive) : archive[x].id = transferred[x]
        /\ tpc \in {"idle", "done"} => Len(archive) = Len(transferred)
        /\ (tpc = "raised" /\ exc # "HTTPError") => Len(archive) = Len(transferred)

\* C9: every incident-create call carries the state New or Closed, whatever
\* the status of the source ticket.
C9_CreateStateNewOrClosed ==
    \A x \in WritesOf("incident") : writes[x].arg \in {"New", "Closed"}

\* C10: with destination writes enabled and every remote call answering
\* well, the transfer of a ticket (status open, pending, closed or solved,
\* any number of comments) makes one create, then one comment post per
\* source comment in source order, then one status update as its last
\* destination write, and leaves the incident in the mapped state.
C10_CreateCommentsThenUpdate ==
    (/\ samanage
     /\ Fetched
     /\ OpenLike \/ ClosedLike
     /\ Ended
     /\ exc # "HTTPError"
     /\ AllAnswersOk)
    => /\ WritesInOrder
       /\ tpc = "done"
       /\ OpenLike => incState = "Assigned"
       /\ ClosedLike => incState = "Closed"

====
